---------------------------- MODULE Spec2Model ----------------------------
(***************************************************************************)
(* Model of src/components/admin/shared/DataTable.tsx: the DataTable React *)
(* component with client-side pagination.                                  *)
(*                                                                         *)
(* The component function is one handler: every execution of it (a render  *)
(* pass) reads the props and the hook state currentPage, derives           *)
(* totalPages, startIndex, endIndex and paginatedData, possibly calls      *)
(* setCurrentPage(1), and returns one of three outputs.  A pass that       *)
(* called setCurrentPage while rendering is discarded by React, which      *)
(* executes the component function again at once with the new state;       *)
(* otherwise the pass is committed and its closures (the onClick handlers  *)
(* of the control strip) are the ones user events run.                     *)
(***************************************************************************)
EXTENDS Integers, Sequences, FiniteSets, TLC

(***************************************************************************)
(* Bounds of the model.                                                    *)
(***************************************************************************)
MaxRecords == 10
MaxPageSize == 3
MaxRows == 4
MaxPages == 12
MaxColumns == 3

(***************************************************************************)
(* Program constant: const maxVisiblePages = 5.                            *)
(***************************************************************************)
maxVisiblePages == 5

VARIABLES
    data,         \* prop: the record sequence (record ids, in order)
    pageSize,     \* prop: positive number of records per page
    pagination,   \* prop: pagination flag
    loading,      \* prop: loading flag
    mobileCardView, \* prop: whether the card layout is offered
    currentPage,  \* useState(1): the hook state the next pass will read
    phase,        \* "settled" | "scheduled" | "rerender"
    pass,         \* what the latest execution of the component derived
    call,         \* the latest direct application of a pure function
    script        \* what the user does: "any", or only "next" / only "prev"

props == <<data, pageSize, pagination, loading, mobileCardView>>

vars == <<data, pageSize, pagination, loading, mobileCardView,
          currentPage, phase, pass, call, script>>

(***************************************************************************)
(* Arithmetic helpers: Math.min, Math.max, Math.ceil(n / d) for d > 0.     *)
(***************************************************************************)
Min(a, b) == IF a <= b THEN a ELSE b

Max(a, b) == IF a >= b THEN a ELSE b

Ceil(n, d) == (n + d - 1) \div d

(***************************************************************************)
(* Array.prototype.slice(start, end) on a sequence: zero-based, end        *)
(* exclusive, both indices clamped to the length, negative ones counted    *)
(* from the end.                                                           *)
(***************************************************************************)
JsSlice(s, start, end) ==
    LET len  == Len(s)
        from == IF start < 0 THEN Max(len + start, 0) ELSE Min(start, len)
        to   == IF end < 0 THEN Max(len + end, 0) ELSE Min(end, len)
    IN  IF from >= to THEN << >> ELSE SubSeq(s, from + 1, to)

(***************************************************************************)
(* Pagination calculations of the component body.                          *)
(***************************************************************************)
totalPages(d, ps) == Ceil(Len(d), ps)

startIndexZeroBased(cp, ps) == cp * ps

startIndex(cp, ps) == (cp - 1) * ps

endIndexInclusive(cp, ps) == startIndex(cp, ps) + ps - 1

endIndex(cp, ps) == startIndex(cp, ps) + ps

paginatedDataAlways(d, pg, ps, cp) ==
    JsSlice(d, startIndex(cp, ps), endIndex(cp, ps))

paginatedData(d, pg, ps, cp) ==
    IF pg THEN JsSlice(d, startIndex(cp, ps), endIndex(cp, ps)) ELSE d

(***************************************************************************)
(* The condition of "Reset to page 1 if current page exceeds total pages". *)
(***************************************************************************)
ResetNeededUnguarded(cp, tp) == cp > tp

ResetNeededLate(cp, tp) == cp > tp + 1 /\ tp > 0

ResetNeededEager(cp, tp) == cp >= tp /\ tp > 0

ResetNeeded(cp, tp) == cp > tp /\ tp > 0

ResetTargetClamped(tp) == tp

ResetTarget(tp) == 1

(***************************************************************************)
(* Page indicators: a page number or the ellipsis marker '...'.            *)
(***************************************************************************)
Num(n) == [ellipsis |-> FALSE, page |-> n]

Ellipsis == [ellipsis |-> TRUE, page |-> 0]

RangeOvershoot(a, b) == [i \in 1..Max(b - a + 2, 0) |-> Num(a + i - 1)]

Range(a, b) == [i \in 1..Max(b - a + 1, 0) |-> Num(a + i - 1)]

(***************************************************************************)
(* getPageNumbers of PaginationControls, closed over currentPage and       *)
(* totalPages.                                                             *)
(***************************************************************************)
FitsUnabridgedStrict(tp) == tp < maxVisiblePages

FitsUnabridged(tp) == tp <= maxVisiblePages

NearStartWide(cp) == cp <= maxVisiblePages

NearStart(cp) == cp <= 3

NearEndLate(cp, tp) == cp >= tp - 1

NearEnd(cp, tp) == cp >= tp - 2

StartWindow(tp) == Range(1, 4) \o <<Ellipsis>> \o <<Num(tp)>>

EndWindow(tp) == <<Num(1)>> \o <<Ellipsis>> \o Range(tp - 3, tp)

MiddleWindowWide(cp, tp) ==
    <<Num(1)>> \o <<Ellipsis>> \o Range(cp - 2, cp + 2)
        \o <<Ellipsis>> \o <<Num(tp)>>

MiddleWindow(cp, tp) ==
    <<Num(1)>> \o <<Ellipsis>> \o Range(cp - 1, cp + 1)
        \o <<Ellipsis>> \o <<Num(tp)>>

getPageNumbers(cp, tp) ==
    IF FitsUnabridged(tp)
    THEN Range(1, tp)
    ELSE IF NearStart(cp)
         THEN StartWindow(tp)
         ELSE IF NearEnd(cp, tp)
              THEN EndWindow(tp)
              ELSE MiddleWindow(cp, tp)

(***************************************************************************)
(* PaginationControls: null when pagination is off or there is at most one *)
(* page, otherwise the strip with its indicators and disabled flags.       *)
(***************************************************************************)
StripShownIgnoringFlag(pg, tp) == ~(tp <= 1)

StripShown(pg, tp) == ~(~pg \/ tp <= 1)

FirstDisabled(cp) == cp = 1

PrevDisabled(cp) == cp = 1

NextDisabledNever(cp, tp) == FALSE

NextDisabledEarly(cp, tp) == cp >= tp - 1

NextDisabled(cp, tp) == cp = tp

LastDisabled(cp, tp) == cp = tp

NoControls ==
    [shown |-> FALSE, pages |-> << >>,
     firstDisabled |-> TRUE, prevDisabled |-> TRUE,
     nextDisabled |-> TRUE, lastDisabled |-> TRUE,
     showingFrom |-> 0, showingTo |-> 0, showingOf |-> 0]

PaginationControls(d, ps, pg, cp) ==
    LET tp == totalPages(d, ps)
    IN  IF ~StripShown(pg, tp)
        THEN NoControls
        ELSE [shown |-> TRUE,
              pages |-> getPageNumbers(cp, tp),
              firstDisabled |-> FirstDisabled(cp),
              prevDisabled |-> PrevDisabled(cp),
              nextDisabled |-> NextDisabled(cp, tp),
              lastDisabled |-> LastDisabled(cp, tp),
              showingFrom |-> startIndex(cp, ps) + 1,
              showingTo |-> Min(endIndex(cp, ps), Len(d)),
              showingOf |-> Len(d)]

(***************************************************************************)
(* Which of the three outputs the component returns.                       *)
(***************************************************************************)
OutputModeEmptyFirst(d, ld) ==
    IF Len(d) = 0 THEN "empty"
    ELSE IF ld THEN "loading"
    ELSE "table"

OutputMode(d, ld) ==
    IF ld THEN "loading"
    ELSE IF Len(d) = 0 THEN "empty"
    ELSE "table"

(***************************************************************************)
(* The two layouts map the visible slice to one container per record, in   *)
(* order, keyed by the record's id.                                        *)
(***************************************************************************)
MobileCardView(rows) == rows

DesktopTableView(rows) == rows

(***************************************************************************)
(* One execution of the component function DataTable with props            *)
(* (d, ps, pg, ld, mc) and hook state cp.  The slice is derived first, the *)
(* reset condition is evaluated after it.  The layouts and the control     *)
(* strip are children of the returned tree, so they exist only in the      *)
(* table output of a pass that React keeps.                                *)
(***************************************************************************)
DataTable(d, ps, pg, ld, mc, cp) ==
    LET tp    == totalPages(d, ps)
        rows  == paginatedData(d, pg, ps, cp)
        reset == ResetNeeded(cp, tp)
        mode  == OutputMode(d, ld)
        kept  == mode = "table" /\ ~reset
    IN  [currentPage   |-> cp,
         totalPages    |-> tp,
         startIndex    |-> startIndex(cp, ps),
         endIndex      |-> endIndex(cp, ps),
         paginatedData |-> rows,
         reset         |-> reset,
         mode          |-> mode,
         cardShown     |-> kept /\ mc,
         cardRows      |-> IF kept /\ mc THEN MobileCardView(rows) ELSE << >>,
         gridShown     |-> kept,
         gridRows      |-> IF kept THEN DesktopTableView(rows) ELSE << >>,
         controls      |-> IF kept
                           THEN PaginationControls(d, ps, pg, cp)
                           ELSE NoControls]

(***************************************************************************)
(* The values the caller may pass.                                         *)
(***************************************************************************)
Master == [i \in 1..MaxRecords |-> MaxRecords + 1 - i]

DataChoices == {SubSeq(Master, 1, n) : n \in 0..MaxRecords}

PageSizes == 1..MaxPageSize

(***************************************************************************)
(* The state updates of the control strip's onClick handlers.              *)
(***************************************************************************)
FirstTarget == 1

PrevUpdater(prev) == Max(1, prev - 1)

NextUpdaterUnclamped(prev, tp) == prev + 1

NextUpdater(prev, tp) == Min(tp, prev + 1)

LastTarget(tp) == tp

PageButtons(pages) ==
    {pages[i].page : i \in {j \in DOMAIN pages : ~pages[j].ellipsis}}

NoCall == [fn |-> "none"]

(***************************************************************************)
(* Initial state: the component is mounted and its first pass committed.   *)
(***************************************************************************)
Init ==
    /\ data \in DataChoices
    /\ pageSize \in PageSizes
    /\ pagination \in BOOLEAN
    /\ loading \in BOOLEAN
    /\ mobileCardView \in BOOLEAN
    /\ pass = DataTable(data, pageSize, pagination, loading, mobileCardView, 1)
    /\ currentPage = (IF pass.reset THEN ResetTarget(pass.totalPages) ELSE 1)
    /\ phase = (IF pass.reset THEN "rerender" ELSE "settled")
    /\ call = NoCall
    /\ script = "any"

(***************************************************************************)
(* What follows a pass: a pass that called setCurrentPage(1) is run again  *)
(* with the new state, any other pass is committed.                        *)
(***************************************************************************)
AfterPass(p) ==
    /\ pass' = p
    /\ currentPage' = IF p.reset THEN ResetTarget(p.totalPages)
                      ELSE p.currentPage
    /\ phase' = IF p.reset THEN "rerender" ELSE "settled"

(***************************************************************************)
(* The caller renders the component with new props.                        *)
(***************************************************************************)
SetProps ==
    /\ phase # "rerender"
    /\ \E d \in DataChoices, ps \in PageSizes,
          pg \in BOOLEAN, ld \in BOOLEAN, mc \in BOOLEAN :
          /\ <<d, ps, pg, ld, mc>> # props
          /\ data' = d
          /\ pageSize' = ps
          /\ pagination' = pg
          /\ loading' = ld
          /\ mobileCardView' = mc
          /\ AfterPass(DataTable(d, ps, pg, ld, mc, currentPage))
    /\ UNCHANGED <<call, script>>

(***************************************************************************)
(* React executes the component function after a state update.             *)
(***************************************************************************)
Render ==
    /\ phase \in {"scheduled", "rerender"}
    /\ AfterPass(DataTable(data, pageSize, pagination, loading,
                           mobileCardView, currentPage))
    /\ UNCHANGED <<props, call, script>>

(***************************************************************************)
(* User events on the committed control strip.  A handler runs with the    *)
(* totalPages of the pass that created it; the functional updaters of prev *)
(* and next read the latest state.                                         *)
(***************************************************************************)
CanClick == phase # "rerender" /\ pass.controls.shown

SetCurrentPage(v) ==
    /\ currentPage' = v
    /\ phase' = "scheduled"
    /\ UNCHANGED <<props, pass, call, script>>

ClickFirst ==
    /\ CanClick
    /\ ~pass.controls.firstDisabled
    /\ SetCurrentPage(FirstTarget)

ClickPrev ==
    /\ CanClick
    /\ ~pass.controls.prevDisabled
    /\ SetCurrentPage(PrevUpdater(currentPage))

ClickPage(n) ==
    /\ CanClick
    /\ n \in PageButtons(pass.controls.pages)
    /\ SetCurrentPage(n)

ClickJump == \E n \in 0..(MaxRecords + 1) : ClickPage(n)

ClickNext ==
    /\ CanClick
    /\ ~pass.controls.nextDisabled
    /\ SetCurrentPage(NextUpdater(currentPage, pass.totalPages))

ClickLast ==
    /\ CanClick
    /\ ~pass.controls.lastDisabled
    /\ SetCurrentPage(LastTarget(pass.totalPages))

UserAction == ClickFirst \/ ClickPrev \/ ClickJump \/ ClickNext \/ ClickLast

Next ==
    \/ SetProps
    \/ Render
    \/ ClickFirst
    \/ ClickPrev
    \/ ClickJump
    \/ ClickNext
    \/ ClickLast

Spec == Init /\ [][Next]_vars

(***************************************************************************)
(* The caller renders the component with a new record collection or a new  *)
(* pageSize, the other props as they are.                                  *)
(***************************************************************************)
SetRecords ==
    /\ phase # "rerender"
    /\ \E d \in DataChoices, ps \in PageSizes :
          /\ <<d, ps>> # <<data, pageSize>>
          /\ data' = d
          /\ pageSize' = ps
          /\ AfterPass(DataTable(d, ps, pagination, loading, mobileCardView,
                                 currentPage))
    /\ UNCHANGED <<pagination, loading, mobileCardView, call, script>>

NextRecords ==
    \/ SetRecords
    \/ Render
    \/ ClickFirst
    \/ ClickPrev
    \/ ClickJump
    \/ ClickNext
    \/ ClickLast

(***************************************************************************)
(* The component under changes of the records and of pageSize, with        *)
(* React's scheduling: a render that is due (after a state update in a     *)
(* handler or during a pass) is eventually executed.                       *)
(***************************************************************************)
FairSpec == Init /\ [][NextRecords]_vars /\ WF_vars(Render)

(***************************************************************************)
(* A user who only clicks next, or only clicks prev, whenever the control  *)
(* is enabled, on a component whose props stay as they are.  It starts in  *)
(* any committed state: any props and any currentPage whose pass did not   *)
(* reset.                                                                  *)
(***************************************************************************)
InitWalk ==
    /\ data \in DataChoices
    /\ pageSize \in PageSizes
    /\ pagination \in BOOLEAN
    /\ loading \in BOOLEAN
    /\ mobileCardView \in BOOLEAN
    /\ currentPage \in 1..MaxRecords
    /\ pass = DataTable(data, pageSize, pagination, loading, mobileCardView,
                        currentPage)
    /\ ~pass.reset
    /\ phase = "settled"
    /\ call = NoCall
    /\ script \in {"next", "prev"}

WalkNext == script = "next" /\ ClickNext

WalkPrev == script = "prev" /\ ClickPrev

NextWalk ==
    \/ WalkNext
    \/ WalkPrev
    \/ Render

WalkSpec ==
    /\ InitWalk
    /\ [][NextWalk]_vars
    /\ WF_vars(WalkNext)
    /\ WF_vars(WalkPrev)
    /\ WF_vars(Render)

(***************************************************************************)
(* Direct application of the pure computations to inputs drawn from        *)
(* bounded sets: getPageNumbers for any currentPage and totalPages, and    *)
(* the slices of every page of a record sequence.                          *)
(***************************************************************************)
PageArgs == (0 - 2)..(MaxPages + 2)

InjectiveSeqs(S) ==
    UNION {{s \in [1..n -> S] : \A i, j \in 1..n : i # j => s[i] # s[j]} :
              n \in 0..Cardinality(S)}

RowSeqs == InjectiveSeqs(1..MaxRows)

(***************************************************************************)
(* The three regions of one record card of MobileCardView, each the        *)
(* sequence of the columns (by position in the column list) whose cell it  *)
(* renders: filter(mobileHighlight), filter(!mobileHighlight && header !== *)
(* 'Actions'), and find(header === 'Actions') when some column has it.     *)
(***************************************************************************)
Headers == {"Actions", "Name"}

Columns == [header : Headers, mobileHighlight : BOOLEAN]

ColumnLists == UNION {[1..n -> Columns] : n \in 0..MaxColumns}

Positions(cols) == [i \in 1..Len(cols) |-> i]

HighlightedColumns(cols) ==
    SelectSeq(Positions(cols), LAMBDA i : cols[i].mobileHighlight)

NormalColumns(cols) ==
    SelectSeq(Positions(cols),
              LAMBDA i : ~cols[i].mobileHighlight /\ cols[i].header # "Actions")

ActionsColumn(cols) ==
    LET found == {i \in DOMAIN cols : cols[i].header = "Actions"}
    IN  IF found # {}
        THEN <<CHOOSE i \in found : \A j \in found : i <= j>>
        ELSE << >>

CardCall(cols) ==
    [fn |-> "MobileCardView", columns |-> cols,
     highlighted |-> HighlightedColumns(cols),
     normal |-> NormalColumns(cols),
     trailing |-> ActionsColumn(cols)]

WindowCall(cp, tp) ==
    [fn |-> "getPageNumbers", currentPage |-> cp, totalPages |-> tp,
     pages |-> getPageNumbers(cp, tp)]

SliceCall(d, ps) ==
    [fn |-> "paginatedData", data |-> d, pageSize |-> ps,
     totalPages |-> totalPages(d, ps),
     slices |-> [p \in 1..totalPages(d, ps) |-> paginatedData(d, TRUE, ps, p)]]

InitPure ==
    /\ data = << >>
    /\ pageSize = 1
    /\ pagination = FALSE
    /\ loading = FALSE
    /\ mobileCardView = TRUE
    /\ currentPage = 1
    /\ phase = "settled"
    /\ pass = DataTable(data, pageSize, pagination, loading, mobileCardView, 1)
    /\ call = NoCall
    /\ script = "any"

CallGetPageNumbers ==
    /\ \E cp \in PageArgs, tp \in 0..MaxPages : call' = WindowCall(cp, tp)
    /\ UNCHANGED <<props, currentPage, phase, pass, script>>

CallPaginatedData ==
    /\ \E d \in RowSeqs, ps \in PageSizes : call' = SliceCall(d, ps)
    /\ UNCHANGED <<props, currentPage, phase, pass, script>>

CallMobileCardView ==
    /\ \E cols \in ColumnLists : call' = CardCall(cols)
    /\ UNCHANGED <<props, currentPage, phase, pass, script>>

NextPure ==
    \/ CallGetPageNumbers
    \/ CallPaginatedData
    \/ CallMobileCardView

SpecPure == InitPure /\ [][NextPure]_vars

(***************************************************************************)
(* Properties of the window algorithm and of the slices, under SpecPure.   *)
(***************************************************************************)
IsWindowCall == call.fn = "getPageNumbers"

IsSliceCall == call.fn = "paginatedData"

PageIndicator(n) == [ellipsis |-> FALSE, page |-> n]

EllipsisMarker == [ellipsis |-> TRUE, page |-> 0]

EllipsisCount(pages) == Cardinality({i \in DOMAIN pages : pages[i].ellipsis})

RECURSIVE Flatten(_)
Flatten(ss) ==
    IF Len(ss) = 0 THEN << >> ELSE Head(ss) \o Flatten(Tail(ss))

\* C1: for every totalPages in 1..5 and every currentPage, in range or not,
\* getPageNumbers returns exactly the page numbers 1, 2, ..., totalPages in
\* increasing order and no ellipsis marker; the result is the same for
\* every currentPage.
C1_SmallWindowIsEveryPage ==
    (IsWindowCall /\ call.totalPages \in 1..5) =>
        /\ Len(call.pages) = call.totalPages
        /\ \A i \in 1..call.totalPages : call.pages[i] = PageIndicator(i)

C1_Witness ==
    /\ IsWindowCall
    /\ call.totalPages = 5
    /\ call.currentPage > call.totalPages
    /\ call.pages = <<PageIndicator(1), PageIndicator(2), PageIndicator(3),
                      PageIndicator(4), PageIndicator(5)>>

\* C2: for every totalPages > 5 and every currentPage in 1..totalPages the
\* window has between 5 and 7 entries, one or two ellipsis markers, holds
\* page 1 and page totalPages, has no two adjacent ellipsis markers and no
\* page number twice.
C2_WindowShape ==
    (/\ IsWindowCall
     /\ call.totalPages > 5
     /\ call.currentPage \in 1..call.totalPages) =>
        LET w == call.pages
        IN  /\ Len(w) >= 5
            /\ Len(w) <= 7
            /\ EllipsisCount(w) \in {1, 2}
            /\ \E i \in DOMAIN w : w[i] = PageIndicator(1)
            /\ \E i \in DOMAIN w : w[i] = PageIndicator(call.totalPages)
            /\ \A i \in 1..(Len(w) - 1) : ~(w[i].ellipsis /\ w[i + 1].ellipsis)
            /\ \A i, j \in DOMAIN w :
                  (i # j /\ ~w[i].ellipsis /\ ~w[j].ellipsis) =>
                      w[i].page # w[j].page

C2_Witness ==
    /\ IsWindowCall
    /\ call.totalPages = 7
    /\ call.currentPage = 4
    /\ Len(call.pages) = 7
    /\ EllipsisCount(call.pages) = 2

\* C3: for every totalPages > 5 and every currentPage in 1..totalPages the
\* window is exactly [1,2,3,4,...,totalPages] when currentPage <= 3,
\* otherwise [1,...,totalPages-3..totalPages] when currentPage >=
\* totalPages - 2, otherwise [1,...,currentPage-1,currentPage,
\* currentPage+1,...,totalPages]; for totalPages = 10 the pages 1, 7 and 9
\* give [1,2,3,4,...,10], [1,...,6,7,8,...,10] and [1,...,7,8,9,10].
C3_WindowBranches ==
    (/\ IsWindowCall
     /\ call.totalPages > 5
     /\ call.currentPage \in 1..call.totalPages) =>
        LET c == call.currentPage
            t == call.totalPages
            P(n) == PageIndicator(n)
            E == EllipsisMarker
        IN  /\ c <= 3 => call.pages = <<P(1), P(2), P(3), P(4), E, P(t)>>
            /\ (c > 3 /\ c >= t - 2) =>
                  call.pages = <<P(1), E, P(t - 3), P(t - 2), P(t - 1), P(t)>>
            /\ (c > 3 /\ c < t - 2) =>
                  call.pages = <<P(1), E, P(c - 1), P(c), P(c + 1), E, P(t)>>
            /\ (t = 10 /\ c = 1) =>
                  call.pages = <<P(1), P(2), P(3), P(4), E, P(10)>>
            /\ (t = 10 /\ c = 7) =>
                  call.pages = <<P(1), E, P(6), P(7), P(8), E, P(10)>>
            /\ (t = 10 /\ c = 9) =>
                  call.pages = <<P(1), E, P(7), P(8), P(9), P(10)>>

C3_Witness ==
    /\ IsWindowCall
    /\ call.totalPages = 10
    /\ call.currentPage = 7
    /\ call.pages = <<PageIndicator(1), EllipsisMarker, PageIndicator(6),
                      PageIndicator(7), PageIndicator(8), EllipsisMarker,
                      PageIndicator(10)>>

\* C4: with pagination enabled, for every record sequence and positive
\* pageSize the slices of the pages 1..totalPages, totalPages =
\* ceil(length / pageSize), concatenated in page order are the record
\* sequence itself: nothing missing, nothing twice, order kept; every page
\* but the last has pageSize records and the last has 1..pageSize.  For 23
\* records and pageSize 10 there are 3 pages and page 3 holds the records
\* 20..22 (zero-based).
C4_SlicesReconstruct ==
    /\ IsSliceCall =>
          LET n  == Len(call.data)
              ps == call.pageSize
              tp == Len(call.slices)
          IN  /\ tp * ps >= n
              /\ (tp - 1) * ps < n
              /\ call.totalPages = tp
              /\ Flatten(call.slices) = call.data
              /\ \A p \in 1..(tp - 1) : Len(call.slices[p]) = ps
              /\ tp > 0 => Len(call.slices[tp]) \in 1..ps
    /\ LET records == [i \in 1..23 |-> 100 + i]
       IN  /\ totalPages(records, 10) = 3
           /\ paginatedData(records, TRUE, 10, 3) = <<121, 122, 123>>

C4_Witness ==
    /\ IsSliceCall
    /\ Len(call.data) = 4
    /\ call.pageSize = 3
    /\ call.slices = <<SubSeq(call.data, 1, 3), SubSeq(call.data, 4, 4)>>
    /\ call.data[1] # 1

(***************************************************************************)
(* Properties of the component, under Spec.                                *)
(***************************************************************************)
FirstRecords(d, n) == [i \in 1..(IF n <= Len(d) THEN n ELSE Len(d)) |-> d[i]]

PassFoundStalePage ==
    pass.currentPage > pass.totalPages /\ pass.totalPages > 0

\* C5 (as amended): whenever a render pass finds currentPage > totalPages
\* with totalPages > 0, currentPage is set to 1 (not clamped to
\* totalPages), and the next pass runs with currentPage = 1, does not reset
\* again, and derives as visible slice records[0, pageSize) when pagination
\* is enabled and the entire collection when it is disabled.
C5_ResetToFirstPage ==
    /\ [](PassFoundStalePage => (pass.reset /\ currentPage = 1))
    /\ [][PassFoundStalePage =>
            /\ pass'.currentPage = 1
            /\ ~pass'.reset
            /\ data' = data
            /\ pageSize' = pageSize
            /\ pass'.paginatedData =
                  IF pagination THEN FirstRecords(data, pageSize) ELSE data]_vars

C5_Witness ==
    /\ PassFoundStalePage
    /\ pass.currentPage = 5
    /\ pass.totalPages = 2
    /\ pagination
    /\ currentPage = 1

\* C5 (as stated): after a pass that finds currentPage > totalPages with
\* totalPages > 0, the next computed visible slice is records[0, pageSize).
C5_Original ==
    [][PassFoundStalePage =>
          pass'.paginatedData = FirstRecords(data, pageSize)]_vars

\* C6 (as amended): within a render pass the visible slice is derived
\* first, from the currentPage the pass was started with, and the
\* self-correction check is evaluated after it; a pass in which the check
\* fires is discarded (it shows no layout and no control strip) and is
\* followed at once by one further pass, which is committed.  So no
\* committed pass has currentPage > totalPages with totalPages > 0, and a
\* shrunk collection costs one extra pass.
C6_StalePassIsDiscarded ==
    /\ []((phase # "rerender") => ~PassFoundStalePage)
    /\ [](PassFoundStalePage =>
            /\ phase = "rerender"
            /\ pass.paginatedData = (IF pagination THEN << >> ELSE data)
            /\ ~pass.gridShown
            /\ ~pass.cardShown
            /\ ~pass.controls.shown)
    /\ [][(phase = "rerender") =>
            (phase' = "settled" /\ ~PassFoundStalePage')]_vars

C6_Witness ==
    /\ phase = "rerender"
    /\ PassFoundStalePage
    /\ pagination
    /\ Len(data) > 0
    /\ pass.paginatedData = << >>

\* C6 (as stated): no render pass derives its visible slice from a
\* currentPage greater than totalPages when totalPages > 0.
C6_Original == ~PassFoundStalePage

\* C7: with the totalPages of the committed pass, the control-strip actions
\* set currentPage to: first -> 1, prev -> max(1, p - 1), jump(n) -> n,
\* next -> min(totalPages, p + 1), last -> totalPages, p being the latest
\* currentPage; applied again and again without a render in between they
\* never take currentPage out of 1..totalPages.
C7_Transitions ==
    /\ [](CanClick => currentPage \in 1..pass.totalPages)
    /\ [][/\ ClickFirst => currentPage' = 1
          /\ ClickPrev =>
                currentPage' = (IF currentPage - 1 >= 1
                                THEN currentPage - 1 ELSE 1)
          /\ \A n \in 0..(MaxRecords + 1) : ClickPage(n) => currentPage' = n
          /\ ClickNext =>
                currentPage' = (IF currentPage + 1 <= pass.totalPages
                                THEN currentPage + 1 ELSE pass.totalPages)
          /\ ClickLast => currentPage' = pass.totalPages
          /\ UserAction =>
                /\ currentPage' \in 1..pass.totalPages
                /\ pass' = pass]_vars

C7_Witness ==
    /\ phase = "scheduled"
    /\ pass.totalPages > 5
    /\ pass.currentPage = pass.totalPages - 1
    /\ currentPage = pass.totalPages
    /\ ENABLED ClickNext

\* C8: in the control strip first and prev are disabled exactly when
\* currentPage = 1, next and last exactly when currentPage = totalPages; a
\* disabled control runs no handler; next invoked at currentPage =
\* totalPages and prev invoked at currentPage = 1 leave currentPage, and so
\* the pass derived from it, unchanged.
C8_DisabledAndNoOps ==
    /\ [](pass.controls.shown =>
            /\ pass.controls.firstDisabled <=> (pass.currentPage = 1)
            /\ pass.controls.prevDisabled <=> (pass.currentPage = 1)
            /\ pass.controls.nextDisabled <=>
                  (pass.currentPage = pass.totalPages)
            /\ pass.controls.lastDisabled <=>
                  (pass.currentPage = pass.totalPages))
    /\ []((phase = "settled" /\ pass.controls.shown) =>
            /\ currentPage = 1 => ~ENABLED (ClickFirst \/ ClickPrev)
            /\ currentPage = pass.totalPages =>
                  ~ENABLED (ClickNext \/ ClickLast))
    /\ [][/\ (ClickNext /\ currentPage = pass.totalPages) =>
                (currentPage' = currentPage /\ pass' = pass)
          /\ (ClickPrev /\ currentPage = 1) =>
                (currentPage' = currentPage /\ pass' = pass)]_vars

C8_Witness ==
    /\ phase = "scheduled"
    /\ pass.controls.shown
    /\ pass.currentPage = 2
    /\ ~pass.controls.prevDisabled
    /\ pass.controls.nextDisabled
    /\ currentPage = 1

\* C9: the control strip is rendered only when pagination is enabled,
\* totalPages > 1, and the component is neither loading nor empty; when
\* pagination is disabled or totalPages <= 1 no control is offered and no
\* first, prev, jump, next or last transition can occur.
C9_NoStripNoTransition ==
    /\ pass.controls.shown =>
          /\ pagination
          /\ pass.totalPages > 1
          /\ pass.totalPages * pageSize >= Len(data)
          /\ (pass.totalPages - 1) * pageSize < Len(data)
          /\ ~loading
          /\ Len(data) > 0
    /\ (~pagination \/ Len(data) <= pageSize) =>
          /\ ~pass.controls.shown
          /\ ~ENABLED UserAction

C9_Witness ==
    /\ ~pagination
    /\ ~loading
    /\ Len(data) > pageSize
    /\ phase = "settled"
    /\ currentPage > 1
    /\ ~pass.controls.shown

\* C10: when the pagination flag is false the visible slice, and with it
\* the rows of both layouts, is the entire record collection in its
\* original order, whatever currentPage and pageSize are.
C10_NoPaginationShowsAll ==
    ~pagination =>
        /\ pass.paginatedData = data
        /\ pass.gridShown => pass.gridRows = data
        /\ pass.cardShown => pass.cardRows = data

C10_Witness ==
    /\ ~pagination
    /\ pass.currentPage > 1
    /\ Len(data) > pageSize
    /\ pass.gridShown
    /\ pass.cardShown
    /\ pass.gridRows = data

NothingOfTheTableShown ==
    /\ ~pass.cardShown
    /\ ~pass.gridShown
    /\ ~pass.controls.shown
    /\ pass.cardRows = << >>
    /\ pass.gridRows = << >>

\* C11: the committed output is exactly one of three modes, chosen in this
\* order: loading -> only the loading indicator, also when there are no
\* records; else no records (totalPages = 0) -> only emptyMessage; else the
\* layouts over the visible slice (the grid always, the cards when
\* mobileCardView) and the control strip exactly when pagination is
\* enabled and there is more than one page.
C11_ThreeOutputModes ==
    (phase # "rerender") =>
        /\ pass.mode \in {"loading", "empty", "table"}
        /\ loading => (pass.mode = "loading" /\ NothingOfTheTableShown)
        /\ (~loading /\ Len(data) = 0) =>
              /\ pass.mode = "empty"
              /\ pass.totalPages = 0
              /\ NothingOfTheTableShown
        /\ (~loading /\ Len(data) > 0) =>
              /\ pass.mode = "table"
              /\ pass.gridShown
              /\ pass.gridRows = pass.paginatedData
              /\ pass.cardShown <=> mobileCardView
              /\ pass.cardShown => pass.cardRows = pass.paginatedData
              /\ pass.controls.shown <=> (pagination /\ Len(data) > pageSize)

C11_Witness ==
    /\ phase = "settled"
    /\ loading
    /\ Len(data) = 0
    /\ pass.mode = "loading"
    /\ currentPage > 1

IsCardCall == call.fn = "MobileCardView"

TimesRendered(i) ==
    Cardinality({k \in DOMAIN call.highlighted : call.highlighted[k] = i})
    + Cardinality({k \in DOMAIN call.normal : call.normal[k] = i})
    + Cardinality({k \in DOMAIN call.trailing : call.trailing[k] = i})

\* C12: in the card layout, for every column list with at most one column
\* whose header is exactly "Actions", the highlighted, normal and trailing
\* groups are pairwise disjoint and cover the list: every column is
\* rendered exactly once per record card, also a column that has both
\* mobileHighlight = true and the header "Actions".
C12_ColumnsRenderedOnce ==
    (/\ IsCardCall
     /\ Cardinality({i \in DOMAIN call.columns :
                        call.columns[i].header = "Actions"}) <= 1) =>
        \A i \in DOMAIN call.columns : TimesRendered(i) = 1

\* C13: starting from currentPage = 1, after any interleaving of user
\* navigation (first, prev, jump, next, last) and external changes of the
\* record count or pageSize, every committed render with totalPages > 0 has
\* 1 <= currentPage <= totalPages; totalPages is ceil(length / pageSize).
C13_CommittedPageInRange ==
    (phase # "rerender") =>
        /\ pass.totalPages * pageSize >= Len(data)
        /\ (pass.totalPages - 1) * pageSize < Len(data)
        /\ pass.currentPage >= 1
        /\ pass.totalPages > 0 => pass.currentPage <= pass.totalPages
        /\ phase = "settled" => currentPage = pass.currentPage

C13_Witness ==
    /\ phase = "settled"
    /\ pass.totalPages = 2
    /\ pageSize = 3
    /\ currentPage = 2
    /\ pass.controls.shown
    /\ pass.controls.nextDisabled

\* C14: in every render that shows the control strip, every page number
\* offered as a clickable indicator lies in 1..totalPages, so a jump can
\* never set currentPage out of range.
C14_OfferedPagesInRange ==
    /\ pass.controls.shown =>
          \A i \in DOMAIN pass.controls.pages :
              \/ pass.controls.pages[i].ellipsis
              \/ /\ pass.controls.pages[i].page >= 1
                 /\ pass.controls.pages[i].page <= pass.totalPages
    /\ \A n \in 0..(MaxRecords + 1) :
          ENABLED ClickPage(n) => (n >= 1 /\ n <= pass.totalPages)

C14_Witness ==
    /\ phase = "scheduled"
    /\ pass.controls.shown
    /\ pass.totalPages > 5
    /\ pass.currentPage = 4
    /\ Len(pass.controls.pages) = 7
    /\ currentPage = pass.currentPage + 1

\* C15: currentPage starts at 1 and is changed only by a user navigation
\* action or by the self-correction reset: an external change of the props
\* (records, loading, pagination, pageSize, layout) that leaves currentPage
\* <= totalPages, or makes totalPages = 0, leaves currentPage unchanged.
C15_OnlyNavigationOrResetChangesPage ==
    /\ currentPage = 1
    /\ [][(currentPage' # currentPage) =>
            \/ UserAction
            \/ /\ pass'.reset
               /\ pass'.currentPage = currentPage
               /\ pass'.currentPage > pass'.totalPages
               /\ pass'.totalPages > 0
               /\ currentPage' = 1]_vars
    /\ [][(/\ props' # props
           /\ \/ (currentPage - 1) * pageSize' < Len(data')
              \/ Len(data') = 0) =>
            (currentPage' = currentPage /\ ~pass'.reset)]_vars

C15_Witness ==
    /\ phase = "settled"
    /\ loading
    /\ ~pagination
    /\ Len(data) > 0
    /\ currentPage > 1
    /\ currentPage = pass.totalPages

\* C16: self-correction terminates: the reset fires at most once in a row,
\* the pass that follows it has currentPage = 1 <= totalPages, so its reset
\* condition is false and it is committed; a render that is due is
\* followed by a settled render, the component never renders forever.
C16_ResetTerminates ==
    /\ [][pass.reset => ~pass'.reset]_vars
    /\ [][(phase = "rerender") =>
            /\ pass'.currentPage = 1
            /\ pass'.totalPages >= 1
            /\ phase' = "settled"
            /\ currentPage' = 1]_vars
    /\ []((phase # "settled") => <>(phase = "settled"))

C16_Witness ==
    /\ phase = "rerender"
    /\ pass.reset
    /\ pass.currentPage = pass.totalPages + 1
    /\ currentPage = 1
    /\ ENABLED Render

\* C17: for every totalPages >= 1 and every currentPage in 1..totalPages
\* the current page is one of the numeric indicators of the window (never
\* hidden behind an ellipsis), and the numeric indicators appear in
\* strictly increasing order.
C17_CurrentPageShownAndSorted ==
    (/\ IsWindowCall
     /\ call.totalPages >= 1
     /\ call.currentPage \in 1..call.totalPages) =>
        LET w == call.pages
        IN  /\ \E i \in DOMAIN w :
                  ~w[i].ellipsis /\ w[i].page = call.currentPage
            /\ \A i, j \in DOMAIN w :
                  (i < j /\ ~w[i].ellipsis /\ ~w[j].ellipsis) =>
                      w[i].page < w[j].page

C17_Witness ==
    /\ IsWindowCall
    /\ call.totalPages = 9
    /\ call.currentPage = 5
    /\ Len(call.pages) = 7
    /\ call.pages[4] = PageIndicator(5)
    /\ call.pages[2].ellipsis
    /\ call.pages[6].ellipsis

\* C18: in every committed render with pagination enabled and a non-empty
\* record collection the visible slice is non-empty and has at most
\* pageSize records, and the range 'Showing a to b of N', a = startIndex +
\* 1, b = min(endIndex, N), satisfies 1 <= a <= b <= N with b - a + 1 the
\* number of records of the visible slice, which are the records a..b; the
\* control strip, when shown, displays these a, b and N.
C18_ShowingRangeMatchesSlice ==
    (phase # "rerender" /\ pagination /\ Len(data) > 0) =>
        LET N == Len(data)
            a == pass.startIndex + 1
            b == IF pass.endIndex <= N THEN pass.endIndex ELSE N
            rows == pass.paginatedData
        IN  /\ Len(rows) >= 1
            /\ Len(rows) <= pageSize
            /\ 1 <= a
            /\ a <= b
            /\ b <= N
            /\ b - a + 1 = Len(rows)
            /\ \A i \in 1..Len(rows) : rows[i] = data[a + i - 1]
            /\ pass.controls.shown =>
                  /\ pass.controls.showingFrom = a
                  /\ pass.controls.showingTo = b
                  /\ pass.controls.showingOf = N

C18_Witness ==
    /\ phase = "settled"
    /\ pagination
    /\ pass.controls.shown
    /\ Len(data) = 8
    /\ pageSize = 3
    /\ currentPage = 3
    /\ pass.controls.showingFrom = 7
    /\ pass.controls.showingTo = 8
    /\ Len(pass.paginatedData) = 2

\* C19: with totalPages fixed and > 1, every page q in 1..totalPages is
\* reached from any currentPage by enabled control-strip actions alone,
\* although the ellipsis markers are not clickable: repeated next passes
\* through every page from currentPage up to totalPages and then stays at
\* totalPages, repeated prev passes through every page down to 1 and then
\* stays at 1.
C19_EveryPageReachable ==
    /\ \A q \in 1..MaxRecords :
          (/\ pass.controls.shown
           /\ q <= pass.totalPages
           /\ \/ script = "next" /\ currentPage <= q
              \/ script = "prev" /\ currentPage >= q) =>
              <>(currentPage = q /\ pass.totalPages >= q)
    /\ (pass.controls.shown /\ script = "next") =>
          <>[](/\ phase = "settled"
               /\ currentPage = pass.totalPages
               /\ pass.controls.nextDisabled)
    /\ (pass.controls.shown /\ script = "prev") =>
          <>[](/\ phase = "settled"
               /\ currentPage = 1
               /\ pass.controls.prevDisabled)

C19_Witness ==
    /\ script = "next"
    /\ phase = "scheduled"
    /\ pass.controls.shown
    /\ pass.totalPages > 5
    /\ pass.currentPage = pass.totalPages - 1
    /\ currentPage = pass.totalPages
    /\ pass.controls.pages[2].ellipsis

\* C20: when the record collection becomes empty (totalPages = 0) while
\* currentPage = p > 1, the correction does not fire and currentPage stays
\* p for as long as there are no records; when records arrive again the
\* component shows page p if p <= the new totalPages, and otherwise resets
\* to page 1 and shows page 1 in the pass that follows.
C20_EmptyCollectionKeepsPage ==
    /\ [][(props' # props /\ Len(data') = 0) =>
            /\ currentPage' = currentPage
            /\ pass'.currentPage = currentPage
            /\ pass'.totalPages = 0
            /\ ~pass'.reset
            /\ phase' = "settled"
            /\ pass'.mode \in {"empty", "loading"}]_vars
    /\ [](Len(data) = 0 =>
            (phase = "settled" /\ ~pass.reset /\ ~ENABLED UserAction))
    /\ [][(Len(data) = 0 /\ Len(data') > 0) =>
            IF (currentPage - 1) * pageSize' < Len(data')
            THEN /\ currentPage' = currentPage
                 /\ pass'.currentPage = currentPage
                 /\ phase' = "settled"
                 /\ (pagination' /\ ~loading') =>
                       /\ Len(pass'.gridRows) >= 1
                       /\ \A i \in 1..Len(pass'.gridRows) :
                             pass'.gridRows[i] =
                                 data'[(currentPage - 1) * pageSize' + i]
            ELSE /\ pass'.reset
                 /\ currentPage' = 1
                 /\ phase' = "rerender"]_vars
    /\ [][(phase = "rerender") =>
            /\ pass'.currentPage = 1
            /\ (pagination /\ ~loading) =>
                  pass'.gridRows = FirstRecords(data, pageSize)]_vars

C20_Witness ==
    /\ Len(data) = 0
    /\ phase = "settled"
    /\ ~loading
    /\ pass.mode = "empty"
    /\ pass.currentPage = 4
    /\ currentPage = 4

=============================================================================
